---- MODULE Spec2Model ----
(***************************************************************************)
(* Model of the UAV flight simulator engine (src/src/simulator.py).        *)
(*                                                                         *)
(* The Simulator object is a record of its fields; every method is an      *)
(* operator from such a record to the record after the call, and every Qt  *)
(* callback (physics timer, render timer, key press) is one action.        *)
(*                                                                         *)
(* Lengths are fixed-point numbers, Scale units to one scene unit; angles  *)
(* are whole degrees.  Aircraft (src.aircraft) and Settings (src.settings) *)
(* follow the specification's data model and Kinematics Stepper contract.  *)
(* The presentation-only flags of keys 1-6 and 8 (read by render_scene     *)
(* alone) and the window-close keys are not modelled.                      *)
(***************************************************************************)
EXTENDS Integers, Sequences, FiniteSets, TLC

VARIABLES aircrafts, is_stopped, is_finished, simulation_timer, gui_timer,
          cause_crash_second, debug, trigger_calls, trigger_log,
          terminal_log, fault, nticks, nkeys, last_key

vars == <<aircrafts, is_stopped, is_finished, simulation_timer, gui_timer,
          cause_crash_second, debug, trigger_calls, trigger_log,
          terminal_log, fault, nticks, nkeys, last_key>>

(* ------------------------------ bounds --------------------------------- *)

\* physics ticks explored after the initial state
MaxTicks == 4
\* key presses explored after the initial state
MaxKeys == 2
\* largest fleet handed to the conflict trigger when it is exercised alone
MaxFleet == 3
\* uninterrupted ticks flown from construction before the approach scenario
ApproachTicks == 273
\* ticks flown southwards before the boundary scenario
DescentTicks == 443
\* ticks flown from construction until the two aircraft are one tick short
\* of touching
MeetTicks == 276
\* ticks then flown southwards side by side before the corner scenario
CornerTicks == 249
\* presses of each speed-up key before the rush scenario
RushPresses == 6

(* --------------------------- fixed point ------------------------------- *)

\* fixed-point units per scene unit
Scale == 100

Abs(n) == IF n < 0 THEN -n ELSE n

\* n / d rounded to the nearest integer, halves away from zero (d > 0)
RoundDiv(n, d) == IF n >= 0 THEN (2 * n + d) \div (2 * d)
                            ELSE -((2 * (-n) + d) \div (2 * d))

\* 1000 * sin(a) for a = 0..90 degrees
SinTab == <<0, 17, 35, 52, 70, 87, 105, 122, 139, 156, 174, 191, 208, 225,
            242, 259, 276, 292, 309, 326, 342, 358, 375, 391, 407, 423, 438,
            454, 469, 485, 500, 515, 530, 545, 559, 574, 588, 602, 616, 629,
            643, 656, 669, 682, 695, 707, 719, 731, 743, 755, 766, 777, 788,
            799, 809, 819, 829, 839, 848, 857, 866, 875, 883, 891, 899, 906,
            914, 921, 927, 934, 940, 946, 951, 956, 961, 966, 970, 974, 978,
            982, 985, 988, 990, 993, 995, 996, 998, 999, 999, 1000, 1000>>

\* 1000 * sin(radians(a)), a any whole number of degrees
Sin1000(a) ==
    LET b == a % 360
    IN  IF b <= 90 THEN SinTab[b + 1]
        ELSE IF b <= 180 THEN SinTab[180 - b + 1]
        ELSE IF b <= 270 THEN -SinTab[b - 180 + 1]
        ELSE -SinTab[360 - b + 1]

\* 1000 * cos(radians(a))
Cos1000(a) == Sin1000(a + 90)

\* the b in 0..90 whose direction is nearest to that of (ax, ay), ax, ay >= 0
NearestDeg(ax, ay) ==
    CHOOSE b \in 0 .. 90 :
        \A c \in 0 .. 90 : ax * Cos1000(b) + ay * Sin1000(b)
                             >= ax * Cos1000(c) + ay * Sin1000(c)

\* degrees(atan2(dy, dx)) to the nearest degree, in -180..180
Atan2Deg(dy, dx) ==
    LET b == IF dx = 0 /\ dy = 0 THEN 0
             ELSE NearestDeg(Abs(dx), Abs(dy))
    IN  IF dx >= 0 THEN (IF dy >= 0 THEN b ELSE -b)
        ELSE (IF dy >= 0 THEN 180 - b ELSE b - 180)

\* dist(p, q) <= twiceR / 2, for positions and a doubled radius in fixed point
Within(p, q, twiceR) ==
    LET dx == Abs(p[1] - q[1])
        dy == Abs(p[2] - q[2])
    IN  /\ 2 * dx <= twiceR
        /\ 2 * dy <= twiceR
        /\ 4 * (dx * dx + dy * dy) <= twiceR * twiceR

(* ------------------------------ Aircraft ------------------------------- *)

\* area size (Settings.resolution), scene units
Width == 1000
Height == 1000

\* Aircraft defaults
DefaultSize == 20
DefaultSafezoneSize == 60
DefaultMaxCourseChange == 45

\* Aircraft(aircraft_id, position=QPointF(x, y), yaw_angle, speed, course)
Aircraft(id, x, y, yaw, spd, crs) ==
    [aircraft_id |-> id,
     position |-> <<x * Scale, y * Scale>>,
     yaw_angle |-> yaw,
     speed |-> spd,
     course |-> crs,
     max_course_change |-> DefaultMaxCourseChange,
     size |-> DefaultSize,
     safezone_size |-> DefaultSafezoneSize,
     safezone_occupied |-> FALSE,
     distance_covered |-> 0,
     path |-> <<>>]

\* the heading moves toward course by at most max_course_change along the
\* shorter arc and stops exactly at course when within reach
Turn(yaw, crs, mcc) ==
    LET diff == (crs - yaw) % 360
    IN  IF diff = 0 THEN yaw
        ELSE IF diff <= 180
             THEN (IF diff <= mcc THEN crs ELSE (yaw + mcc) % 360)
             ELSE (IF 360 - diff <= mcc THEN crs ELSE (yaw - mcc) % 360)

\* Aircraft.update_position: one tick of the Kinematics Stepper
update_position(a) ==
    LET yaw == Turn(a.yaw_angle, a.course, a.max_course_change)
        pos == <<a.position[1] + RoundDiv(a.speed * Cos1000(yaw) * Scale, 1000),
                 a.position[2] + RoundDiv(a.speed * Sin1000(yaw) * Scale, 1000)>>
    IN  [a EXCEPT !.yaw_angle = yaw,
                  !.position = pos,
                  !.distance_covered = @ + a.speed,
                  !.path = Append(@, pos)]

(* ------------------------------ Simulator ------------------------------ *)

\* the ids the conflict trigger is called with when it is exercised alone
ArgIds == -1 .. MaxFleet

\* the Simulator object: its fields, the last message the conflict trigger
\* printed (trigger_log), the last message a terminal check printed
\* (terminal_log), and what its last callback raised (fault)
Self ==
    [aircrafts |-> aircrafts, is_stopped |-> is_stopped,
     is_finished |-> is_finished, simulation_timer |-> simulation_timer,
     gui_timer |-> gui_timer, cause_crash_second |-> cause_crash_second,
     debug |-> debug, trigger_calls |-> trigger_calls,
     trigger_log |-> trigger_log, terminal_log |-> terminal_log,
     fault |-> fault]

\* the variables hold the fields of s
Is(s) ==
    /\ aircrafts = s.aircrafts
    /\ is_stopped = s.is_stopped
    /\ is_finished = s.is_finished
    /\ simulation_timer = s.simulation_timer
    /\ gui_timer = s.gui_timer
    /\ cause_crash_second = s.cause_crash_second
    /\ debug = s.debug
    /\ trigger_calls = s.trigger_calls
    /\ trigger_log = s.trigger_log
    /\ terminal_log = s.terminal_log
    /\ fault = s.fault

\* the variables take the fields of s
Becomes(s) ==
    /\ aircrafts' = s.aircrafts
    /\ is_stopped' = s.is_stopped
    /\ is_finished' = s.is_finished
    /\ simulation_timer' = s.simulation_timer
    /\ gui_timer' = s.gui_timer
    /\ cause_crash_second' = s.cause_crash_second
    /\ debug' = s.debug
    /\ trigger_calls' = s.trigger_calls
    /\ trigger_log' = s.trigger_log
    /\ terminal_log' = s.terminal_log
    /\ fault' = s.fault

\* Python list indexing: is index i valid for a list of n elements
ValidIndex(n, i) == -n <= i /\ i < n

\* Python list indexing: the element at a valid index i
At(list, i) == list[(i % Len(list)) + 1]

\* reset_simulation that rebuilds the fleet and leaves is_finished set
reset_simulation_stays_finished(s) ==
    [s EXCEPT !.aircrafts = <<Aircraft(0, 100, 100, 45, 2, 45),
                              Aircraft(1, 900, 100, 135, 2, 135)>>]

\* reset_simulation that gives both aircraft the id 0
reset_simulation_same_id(s) ==
    [s EXCEPT !.aircrafts = <<Aircraft(0, 100, 100, 45, 2, 45),
                              Aircraft(0, 900, 100, 135, 2, 135)>>,
              !.is_finished = FALSE]

\* Simulator.reset_simulation
reset_simulation(s) ==
    [s EXCEPT !.aircrafts = <<Aircraft(0, 100, 100, 45, 2, 45),
                              Aircraft(1, 900, 100, 135, 2, 135)>>,
              !.is_finished = FALSE]

\* start_simulation that starts the timer and leaves is_stopped as it is
start_simulation_timer_only(s) == [s EXCEPT !.simulation_timer = TRUE]

\* Simulator.start_simulation
start_simulation(s) ==
    [s EXCEPT !.is_stopped = FALSE, !.simulation_timer = TRUE]

\* stop_simulation that stops the timer and leaves is_stopped as it is
stop_simulation_timer_only(s) == [s EXCEPT !.simulation_timer = FALSE]

\* stop_simulation that sets is_stopped and leaves the timer running
stop_simulation_flag_only(s) == [s EXCEPT !.is_stopped = TRUE]

\* Simulator.stop_simulation
stop_simulation(s) ==
    [s EXCEPT !.simulation_timer = FALSE, !.is_stopped = TRUE]

\* avoid_aircraft_collision that compares the ids before it counts the fleet
avoid_aircraft_collision_id_first(s, aircraft_id) ==
    LET n == Len(s.aircrafts)
        called == [s EXCEPT !.trigger_calls[aircraft_id] = @ + 1]
    IN  IF ~ValidIndex(n, aircraft_id)
        THEN [called EXCEPT !.fault = "IndexError"]
        ELSE IF ~(At(s.aircrafts, aircraft_id).aircraft_id = aircraft_id)
        THEN [called EXCEPT !.fault = "Exception"]
        ELSE IF ~(n >= 1) THEN [called EXCEPT !.trigger_log = "no_collisions"]
        ELSE IF ~(n <= 2) THEN [called EXCEPT !.trigger_log = "three_or_more"]
        ELSE IF ~ValidIndex(n, 1 - aircraft_id)
             THEN [called EXCEPT !.fault = "IndexError"]
        ELSE [called EXCEPT !.trigger_log = "relative_distance"]

\* avoid_aircraft_collision without the comparison of the ids
avoid_aircraft_collision_no_id_check(s, aircraft_id) ==
    LET n == Len(s.aircrafts)
        called == [s EXCEPT !.trigger_calls[aircraft_id] = @ + 1]
    IN  IF ~(n >= 1) THEN [called EXCEPT !.trigger_log = "no_collisions"]
        ELSE IF ~(n <= 2) THEN [called EXCEPT !.trigger_log = "three_or_more"]
        ELSE IF ~ValidIndex(n, aircraft_id) \/ ~ValidIndex(n, 1 - aircraft_id)
             THEN [called EXCEPT !.fault = "IndexError"]
        ELSE [called EXCEPT !.trigger_log = "relative_distance"]

\* Simulator.avoid_aircraft_collision: the guards, then the separation and
\* the relative vector, which are printed only
avoid_aircraft_collision(s, aircraft_id) ==
    LET n == Len(s.aircrafts)
        called == [s EXCEPT !.trigger_calls[aircraft_id] = @ + 1]
    IN  IF ~(n >= 1) THEN [called EXCEPT !.trigger_log = "no_collisions"]
        ELSE IF ~(n <= 2) THEN [called EXCEPT !.trigger_log = "three_or_more"]
        ELSE IF ~ValidIndex(n, aircraft_id)
             THEN [called EXCEPT !.fault = "IndexError"]
        ELSE IF ~(At(s.aircrafts, aircraft_id).aircraft_id = aircraft_id)
             THEN [called EXCEPT !.fault = "Exception"]
        ELSE IF ~ValidIndex(n, 1 - aircraft_id)
             THEN [called EXCEPT !.fault = "IndexError"]
        ELSE [called EXCEPT !.trigger_log = "relative_distance"]

\* check_safezones that calls the trigger on every tick spent inside
SafezoneHalf_level(s, k, other) ==
    LET a == s.aircrafts[k + 1]
        b == s.aircrafts[other + 1]
    IN  IF s.fault # "none" THEN s
        ELSE IF Within(a.position, b.position, a.safezone_size * Scale)
             THEN avoid_aircraft_collision(
                      [s EXCEPT !.aircrafts[k + 1].safezone_occupied = TRUE],
                      a.aircraft_id)
             ELSE (IF a.safezone_occupied
                   THEN [s EXCEPT !.aircrafts[k + 1].safezone_occupied = FALSE]
                   ELSE s)

\* check_safezones that tests a flag against the safezone of the other
\* aircraft of the pair
SafezoneHalf_other_radius(s, k, other) ==
    LET a == s.aircrafts[k + 1]
        b == s.aircrafts[other + 1]
    IN  IF s.fault # "none" THEN s
        ELSE IF Within(a.position, b.position, b.safezone_size * Scale)
             THEN (IF ~a.safezone_occupied
                   THEN avoid_aircraft_collision(
                            [s EXCEPT !.aircrafts[k + 1].safezone_occupied = TRUE],
                            a.aircraft_id)
                   ELSE s)
             ELSE (IF a.safezone_occupied
                   THEN [s EXCEPT !.aircrafts[k + 1].safezone_occupied = FALSE]
                   ELSE s)

\* Simulator.check_safezones, one half of the loop body: the flag of the
\* aircraft at index k against the aircraft at index other (0-based)
SafezoneHalf(s, k, other) ==
    LET a == s.aircrafts[k + 1]
        b == s.aircrafts[other + 1]
    IN  IF s.fault # "none" THEN s
        ELSE IF Within(a.position, b.position, a.safezone_size * Scale)
             THEN (IF ~a.safezone_occupied
                   THEN avoid_aircraft_collision(
                            [s EXCEPT !.aircrafts[k + 1].safezone_occupied = TRUE],
                            a.aircraft_id)
                   ELSE s)
             ELSE (IF a.safezone_occupied
                   THEN [s EXCEPT !.aircrafts[k + 1].safezone_occupied = FALSE]
                   ELSE s)

\* Simulator.check_safezones, the two nested loops from position (i, j) on
RECURSIVE SafezoneLoop(_, _, _)
SafezoneLoop(s, i, j) ==
    IF s.fault # "none" \/ i >= Len(s.aircrafts) - 1 THEN s
    ELSE IF j >= Len(s.aircrafts) THEN SafezoneLoop(s, i + 1, i + 2)
    ELSE SafezoneLoop(SafezoneHalf(SafezoneHalf(s, i, j), j, i), i, j + 1)

\* Simulator.check_safezones
check_safezones(s) == SafezoneLoop(s, 0, 1)

\* the collision test against the radius of one aircraft instead of two
Overlap_one_radius(a, b) == Within(a.position, b.position, a.size * Scale)

\* the collision test against the sum of the sizes instead of half of it
Overlap_diameters(a, b) ==
    Within(a.position, b.position, 2 * (a.size + b.size) * Scale)

\* the test of Simulator.check_collision for one pair
Overlap(a, b) == Within(a.position, b.position, (a.size + b.size) * Scale)

\* Simulator.check_collision: the object afterwards and the returned value
check_collision(s) ==
    IF \E i, j \in 1 .. Len(s.aircrafts) :
          i < j /\ Overlap(s.aircrafts[i], s.aircrafts[j])
    THEN [self |-> [stop_simulation(s) EXCEPT !.is_finished = TRUE,
                                              !.terminal_log = "collided"],
          ret |-> TRUE]
    ELSE [self |-> s, ret |-> FALSE]

\* the containment test with the lower edge excluded
InBounds_strict(a) ==
    /\ a.size * Scale <= 2 * a.position[1]
    /\ 2 * a.position[1] <= 2 * Width * Scale - a.size * Scale
    /\ a.size * Scale <= 2 * a.position[2]
    /\ 2 * a.position[2] < 2 * Height * Scale - a.size * Scale

\* the test of Simulator.check_offscreen for one aircraft (doubled, so that
\* size / 2 needs no division)
InBounds(a) ==
    /\ a.size * Scale <= 2 * a.position[1]
    /\ 2 * a.position[1] <= 2 * Width * Scale - a.size * Scale
    /\ a.size * Scale <= 2 * a.position[2]
    /\ 2 * a.position[2] <= 2 * Height * Scale - a.size * Scale

\* Simulator.check_offscreen: the object afterwards and the returned value
check_offscreen(s) ==
    IF \E i \in 1 .. Len(s.aircrafts) : ~InBounds(s.aircrafts[i])
    THEN [self |-> [stop_simulation(s) EXCEPT !.is_finished = TRUE,
                                              !.terminal_log = "left_boundaries"],
          ret |-> TRUE]
    ELSE [self |-> s, ret |-> FALSE]

\* cause_collision that stores the angle of atan2 as it comes
cause_collision_no_wrap(s) ==
    IF Len(s.aircrafts) >= 2
    THEN [s EXCEPT !.aircrafts[2].course =
             Atan2Deg(s.aircrafts[1].position[2] - s.aircrafts[2].position[2],
                      s.aircrafts[1].position[1] - s.aircrafts[2].position[1])]
    ELSE s

\* cause_collision that takes the differences from the target to the chaser
cause_collision_away(s) ==
    IF Len(s.aircrafts) >= 2
    THEN [s EXCEPT !.aircrafts[2].course =
             Atan2Deg(s.aircrafts[2].position[2] - s.aircrafts[1].position[2],
                      s.aircrafts[2].position[1] - s.aircrafts[1].position[1])
               % 360]
    ELSE s

\* Simulator.cause_collision
cause_collision(s) ==
    IF Len(s.aircrafts) >= 2
    THEN LET aircraft == s.aircrafts[2]
             target_aircraft == s.aircrafts[1]
             delta_x == target_aircraft.position[1] - aircraft.position[1]
             delta_y == target_aircraft.position[2] - aircraft.position[2]
             angle_deg == Atan2Deg(delta_y, delta_x)
         IN  [s EXCEPT !.aircrafts[2].course = angle_deg % 360]
    ELSE s

\* Simulator.update_simulation, the loop that advances every aircraft
RECURSIVE Advance(_)
Advance(list) ==
    IF list = <<>> THEN <<>>
    ELSE <<update_position(Head(list))>> \o Advance(Tail(list))

\* update_simulation that checks the positions before the move and advances
\* the aircraft only when the run goes on
update_simulation_checks_first(s) ==
    LET zoned == check_safezones(s)
        hit == check_collision(zoned)
        collided == [hit.self EXCEPT !.is_stopped = hit.ret]
        off == check_offscreen(collided)
        left == [off.self EXCEPT !.is_stopped = off.ret]
        moved == [left EXCEPT !.aircrafts = Advance(left.aircrafts)]
    IN  IF zoned.fault # "none" THEN zoned
        ELSE IF collided.is_stopped THEN collided
        ELSE IF left.is_stopped THEN left
        ELSE IF moved.cause_crash_second THEN cause_collision(moved)
        ELSE moved

\* update_simulation that goes on to the boundary check after a collision
update_simulation_both_checks(s) ==
    LET moved == [s EXCEPT !.aircrafts = Advance(s.aircrafts)]
        zoned == check_safezones(moved)
        hit == check_collision(zoned)
        off == check_offscreen(hit.self)
        left == [off.self EXCEPT !.is_stopped = hit.ret \/ off.ret]
    IN  IF zoned.fault # "none" THEN zoned
        ELSE IF left.is_stopped THEN left
        ELSE IF left.cause_crash_second THEN cause_collision(left)
        ELSE left

\* Simulator.update_simulation; an exception raised in the proximity pass
\* leaves the method at once
update_simulation(s) ==
    LET moved == [s EXCEPT !.aircrafts = Advance(s.aircrafts)]
        zoned == check_safezones(moved)
        hit == check_collision(zoned)
        collided == [hit.self EXCEPT !.is_stopped = hit.ret]
        off == check_offscreen(collided)
        left == [off.self EXCEPT !.is_stopped = off.ret]
    IN  IF zoned.fault # "none" THEN zoned
        ELSE IF collided.is_stopped THEN collided
        ELSE IF left.is_stopped THEN left
        ELSE IF left.cause_crash_second THEN cause_collision(left)
        ELSE left

\* Simulator.render_scene: draws, changes no field
render_scene(s) == s

\* the keys of keyPressEvent that reach the engine
Keys == {"Backquote", "D", "S", "A", "W", "F2", "F3", "Y", "U",
         "L", "K", "J", "I", "F6", "F7", "O", "P", "R", "Slash", "7"}

\* the speed-down key that stops at 0 instead of 1
Slower_to_zero(a) == IF a.speed > 0 THEN [a EXCEPT !.speed = @ - 1] ELSE a

\* keyPressEvent, the speed-down key (F2, F6) on its aircraft
Slower(a) == IF a.speed > 1 THEN [a EXCEPT !.speed = @ - 1] ELSE a

\* the steering block whose 0-degree key turns the heading at once
Steer_snaps_yaw(s, key, k, ks) ==
    LET a == s.aircrafts[k + 1]
        down == a.course - a.max_course_change * 2
        up == a.course + a.max_course_change * 2
    IN  IF ~(Len(s.aircrafts) >= k + 1) THEN s
        ELSE IF key = ks[1] THEN [s EXCEPT !.aircrafts[k + 1].course = 0,
                                           !.aircrafts[k + 1].yaw_angle = 0]
        ELSE IF key = ks[2] THEN [s EXCEPT !.aircrafts[k + 1].course = 90]
        ELSE IF key = ks[3] THEN [s EXCEPT !.aircrafts[k + 1].course = 180]
        ELSE IF key = ks[4] THEN [s EXCEPT !.aircrafts[k + 1].course = 270]
        ELSE IF key = ks[5]
             THEN [s EXCEPT !.aircrafts[k + 1] = Slower(a)]
        ELSE IF key = ks[6] THEN [s EXCEPT !.aircrafts[k + 1].speed = @ + 1]
        ELSE IF key = ks[7]
             THEN [s EXCEPT !.aircrafts[k + 1].course =
                                IF down < 0 THEN down + 360 ELSE down]
        ELSE IF key = ks[8]
             THEN [s EXCEPT !.aircrafts[k + 1].course =
                                IF up >= 360 THEN up - 360 ELSE up]
        ELSE s

\* keyPressEvent, one steering block: the aircraft at index k (0-based) with
\* its keys <<0 deg, 90 deg, 180 deg, 270 deg, slower, faster, left, right>>
Steer(s, key, k, ks) ==
    LET a == s.aircrafts[k + 1]
        down == a.course - a.max_course_change * 2
        up == a.course + a.max_course_change * 2
    IN  IF ~(Len(s.aircrafts) >= k + 1) THEN s
        ELSE IF key = ks[1] THEN [s EXCEPT !.aircrafts[k + 1].course = 0]
        ELSE IF key = ks[2] THEN [s EXCEPT !.aircrafts[k + 1].course = 90]
        ELSE IF key = ks[3] THEN [s EXCEPT !.aircrafts[k + 1].course = 180]
        ELSE IF key = ks[4] THEN [s EXCEPT !.aircrafts[k + 1].course = 270]
        ELSE IF key = ks[5]
             THEN [s EXCEPT !.aircrafts[k + 1] = Slower(a)]
        ELSE IF key = ks[6] THEN [s EXCEPT !.aircrafts[k + 1].speed = @ + 1]
        ELSE IF key = ks[7]
             THEN [s EXCEPT !.aircrafts[k + 1].course =
                                IF down < 0 THEN down + 360 ELSE down]
        ELSE IF key = ks[8]
             THEN [s EXCEPT !.aircrafts[k + 1].course =
                                IF up >= 360 THEN up - 360 ELSE up]
        ELSE s

\* the shortcuts with a pause/resume key that resumes a finished run
Shortcut_resume_finished(s, key) ==
    IF key = "R"
    THEN start_simulation(reset_simulation(stop_simulation(s)))
    ELSE IF key = "Slash"
    THEN (IF s.is_stopped THEN start_simulation(s) ELSE stop_simulation(s))
    ELSE IF key = "7"
    THEN [s EXCEPT !.cause_crash_second = ~@]
    ELSE s

\* the shortcuts with a pause/resume key that pauses and never resumes
Shortcut_pause_only(s, key) ==
    IF key = "R"
    THEN start_simulation(reset_simulation(stop_simulation(s)))
    ELSE IF key = "Slash"
    THEN (IF ~s.is_finished
          THEN stop_simulation(s)
          ELSE start_simulation(reset_simulation(s)))
    ELSE IF key = "7"
    THEN [s EXCEPT !.cause_crash_second = ~@]
    ELSE s

\* keyPressEvent, the shortcuts for every case
Shortcut(s, key) ==
    IF key = "R"
    THEN start_simulation(reset_simulation(stop_simulation(s)))
    ELSE IF key = "Slash"
    THEN (IF ~s.is_finished
          THEN (IF s.is_stopped THEN start_simulation(s) ELSE stop_simulation(s))
          ELSE start_simulation(reset_simulation(s)))
    ELSE IF key = "7"
    THEN [s EXCEPT !.cause_crash_second = ~@]
    ELSE s

\* Simulator.keyPressEvent
keyPressEvent(s, key) ==
    LET toggled == IF key = "Backquote" THEN [s EXCEPT !.debug = ~@] ELSE s
        first == Steer(toggled, key, 0,
                       <<"D", "S", "A", "W", "F2", "F3", "Y", "U">>)
        second == Steer(first, key, 1,
                        <<"L", "K", "J", "I", "F6", "F7", "O", "P">>)
    IN  IF ~toggled.debug THEN toggled ELSE Shortcut(second, key)

\* Simulator.__init__
Constructed ==
    start_simulation(reset_simulation(
        [aircrafts |-> <<>>, is_stopped |-> FALSE, is_finished |-> FALSE,
         simulation_timer |-> FALSE, gui_timer |-> TRUE,
         cause_crash_second |-> FALSE, debug |-> TRUE,
         trigger_calls |-> [id \in ArgIds |-> 0], trigger_log |-> "none",
         terminal_log |-> "none", fault |-> "none"]))

(* ------------------------------ callbacks ------------------------------ *)

\* simulation_timer.timeout -> update_simulation
Tick ==
    /\ simulation_timer
    /\ nticks < MaxTicks
    /\ Becomes(update_simulation([Self EXCEPT !.fault = "none"]))
    /\ nticks' = nticks + 1
    /\ UNCHANGED <<nkeys, last_key>>

\* gui_timer.timeout -> render_scene
Render ==
    /\ gui_timer
    /\ Becomes(render_scene([Self EXCEPT !.fault = "none"]))
    /\ UNCHANGED <<nticks, nkeys, last_key>>

\* a key press -> keyPressEvent
KeyPress(key) ==
    /\ nkeys < MaxKeys
    /\ Becomes(keyPressEvent([Self EXCEPT !.fault = "none"], key))
    /\ nkeys' = nkeys + 1
    /\ last_key' = key
    /\ UNCHANGED nticks

\* the simulator after n uninterrupted firings of the physics timer
RECURSIVE Fly(_, _)
Fly(s, n) ==
    IF n = 0 THEN s
    ELSE IF n = 1 THEN (IF s.simulation_timer THEN update_simulation(s) ELSE s)
    ELSE CHOOSE r \in {Fly(half, n - n \div 2) : half \in {Fly(s, n \div 2)}} : TRUE

\* the two aircraft left alone from construction, about to meet
Approach == Fly(Constructed, ApproachTicks)

\* aircraft 0 sent south at construction, about to reach the lower edge
Descent == Fly(keyPressEvent(Constructed, "S"), DescentTicks)

\* the state after construction
Init ==
    /\ Is(Constructed)
    /\ nticks = 0
    /\ nkeys = 0
    /\ last_key = "none"

Next == Tick \/ Render \/ \E key \in Keys : KeyPress(key)

Spec == Init /\ [][Next]_vars

\* the state after construction, or a state a flight from it has reached
InitFlight ==
    /\ \E s \in {Constructed, Approach, Descent} : Is(s)
    /\ nticks = 0
    /\ nkeys = 0
    /\ last_key = "none"

SpecFlight == InitFlight /\ [][Next]_vars

\* the simulator after n presses of key
RECURSIVE Press(_, _, _)
Press(s, key, n) ==
    IF n = 0 THEN s ELSE Press(keyPressEvent(s, key), key, n - 1)

\* the two aircraft turned south just before they touch, flying side by side
\* toward the lower edge and two ticks short of it
Corner ==
    Fly(keyPressEvent(keyPressEvent(Fly(Constructed, MeetTicks), "S"), "K"),
        CornerTicks)

\* the two aircraft on the approach, just outside each other's safezone,
\* both sped up
Rush == Press(Press(Approach, "F3", RushPresses), "F7", RushPresses)

\* a state a flight from construction has reached, near a terminal condition
InitOrder ==
    /\ \E s \in {Corner, Rush} : Is(s)
    /\ nticks = 0
    /\ nkeys = 0
    /\ last_key = "none"

SpecOrder == InitOrder /\ [][Next]_vars

(* ----------------- the conflict trigger exercised alone ---------------- *)

\* the aircraft in slot k (1-based) of a test fleet: side by side, inside
\* each other's safezone and clear of each other's hitbox, flying south
Slot(k, id) == Aircraft(id, 500 + 25 * k, 500, 90, 2, 90)

\* the fleets of 0..MaxFleet aircraft with ids from 0..MaxFleet-1
Fleets ==
    UNION {{[k \in 1 .. n |-> Slot(k, ids[k])] : ids \in [1 .. n -> 0 .. MaxFleet - 1]}
           : n \in 0 .. MaxFleet}

\* a simulator holding any such fleet
InitTrigger ==
    /\ \E fleet \in Fleets : Is([Constructed EXCEPT !.aircrafts = fleet])
    /\ nticks = 0
    /\ nkeys = 0
    /\ last_key = "none"

\* a direct call avoid_aircraft_collision(id)
TriggerCall(id) ==
    /\ nticks = 0
    /\ \A k \in ArgIds : trigger_calls[k] = 0
    /\ Becomes(avoid_aircraft_collision([Self EXCEPT !.fault = "none"], id))
    /\ UNCHANGED <<nticks, nkeys, last_key>>

NextTrigger == Tick \/ \E id \in ArgIds : TriggerCall(id)

SpecTrigger == InitTrigger /\ [][NextTrigger]_vars

(* ------------- the proximity pass on unequal safezones ----------------- *)

\* the safezone diameters given to the aircraft of a test pair
ZoneSizes == {40, 60}

\* aircraft 0 and 1 side by side, 25 apart and flying south, with every
\* choice of safezone diameters
Pairs ==
    {<<[Slot(1, 0) EXCEPT !.safezone_size = a],
       [Slot(2, 1) EXCEPT !.safezone_size = b]>> : a, b \in ZoneSizes}

\* a simulator holding any such pair
InitZones ==
    /\ \E fleet \in Pairs : Is([Constructed EXCEPT !.aircrafts = fleet])
    /\ nticks = 0
    /\ nkeys = 0
    /\ last_key = "none"

\* the keys pressed on a test pair: a turn away, a turn toward, a speed-up,
\* reset, pause/resume, the injection toggle and the debug toggle
ZoneKeys == {"A", "D", "F3", "R", "Slash", "7", "Backquote"}

NextZones == Tick \/ Render \/ \E key \in ZoneKeys : KeyPress(key)

SpecZones == InitZones /\ [][NextZones]_vars

(* ------------- the terminal checks on unequal hitboxes ----------------- *)

\* the hitbox diameters given to the aircraft of a test pair
HitSizes == {20, 40}

\* aircraft 0 and 1 side by side, 25 apart and flying south, with every
\* choice of hitbox and safezone diameters (each safezone at least as wide
\* as its hitbox)
SizedPairs ==
    {<<[Slot(1, 0) EXCEPT !.size = s[1], !.safezone_size = z[1]],
       [Slot(2, 1) EXCEPT !.size = s[2], !.safezone_size = z[2]]>> :
         s \in HitSizes \X HitSizes, z \in ZoneSizes \X ZoneSizes}

\* a simulator holding any such pair
InitSizes ==
    /\ \E fleet \in SizedPairs : Is([Constructed EXCEPT !.aircrafts = fleet])
    /\ nticks = 0
    /\ nkeys = 0
    /\ last_key = "none"

SpecSizes == InitSizes /\ [][NextZones]_vars

(* ------------------------------ properties ---------------------------- *)

\* this step is a physics tick
TickStep == nticks' = nticks + 1

\* this step is a press of key
KeyStep(key) == nkeys' = nkeys + 1 /\ last_key' = key

\* this step is a direct call of the conflict trigger with id
CallStep(id) == nticks' = nticks /\ trigger_calls'[id] = trigger_calls[id] + 1

\* the centres of the two aircraft of fleet are at most (size_0 + size_1) / 2 apart
Touching(fleet) ==
    Within(fleet[1].position, fleet[2].position,
           (fleet[1].size + fleet[2].size) * Scale)

\* size/2 <= x <= width - size/2 and size/2 <= y <= height - size/2
Contained(a) ==
    /\ a.size * Scale <= 2 * a.position[1]
    /\ 2 * a.position[1] <= (2 * Width - a.size) * Scale
    /\ a.size * Scale <= 2 * a.position[2]
    /\ 2 * a.position[2] <= (2 * Height - a.size) * Scale

\* a is a newly built aircraft id at (x, y) with yaw = course = angle
Fresh(a, id, x, y, angle) ==
    /\ a.aircraft_id = id
    /\ a.position = <<x * Scale, y * Scale>>
    /\ a.yaw_angle = angle /\ a.course = angle
    /\ a.speed = 2
    /\ a.distance_covered = 0
    /\ a.path = <<>>
    /\ a.safezone_occupied = FALSE

\* fleet is the fixed starting configuration
StartingFleet(fleet) ==
    /\ Len(fleet) = 2
    /\ Fresh(fleet[1], 0, 100, 100, 45)
    /\ Fresh(fleet[2], 1, 900, 100, 135)

\* C1: a physics tick that leaves the two aircraft within (size_0 + size_1)/2
\* of each other ends with is_finished and is_stopped set and the physics
\* timer stopped: the collision is reported in that very tick.
C1_CollisionReportedSameTick ==
    [][TickStep /\ Len(aircrafts') = 2 /\ Touching(aircrafts')
         => is_finished' /\ is_stopped' /\ ~simulation_timer']_vars

\* a tick has ended the run with the two aircraft touching
C1_Witness ==
    /\ nticks > 0 /\ Len(aircrafts) = 2 /\ Touching(aircrafts)
    /\ is_finished /\ is_stopped /\ ~simulation_timer

\* C2: a physics tick without collision ends the run exactly when some
\* aircraft is outside size/2 <= x <= width - size/2, size/2 <= y <= height -
\* size/2 (limits included), and then is_stopped is set as well.
C2_BoundaryInclusive ==
    [][TickStep /\ Len(aircrafts') = 2 /\ ~Touching(aircrafts')
         => /\ is_finished' <=> \E i \in 1 .. 2 : ~Contained(aircrafts'[i])
            /\ is_finished' => is_stopped']_vars

\* aircraft 0 stood exactly on the lower limit after one tick, which did not
\* end the run, and the next tick took it beyond and ended the run
C2_Witness ==
    /\ is_finished /\ is_stopped /\ ~Touching(aircrafts)
    /\ Len(aircrafts[1].path) >= 2
    /\ 2 * aircrafts[1].path[Len(aircrafts[1].path) - 1][2]
          = (2 * Height - aircrafts[1].size) * Scale
    /\ 2 * aircrafts[1].position[2] > (2 * Height - aircrafts[1].size) * Scale

\* C3: in every reachable state is_finished implies is_stopped.
C3_FinishedImpliesStopped == is_finished => is_stopped

\* a finished run in which a steering key has been pressed
C3_Witness ==
    /\ is_finished /\ is_stopped /\ nticks > 0
    /\ last_key = "U" /\ aircrafts[1].course = 135

\* C4: from a finished state no step clears is_finished or is_stopped
\* without replacing the aircraft by the starting configuration, and a step
\* that leaves is_stopped cleared also clears is_finished.
C4_FinishedUntilReset ==
    [][is_finished
         => /\ ~is_finished' => StartingFleet(aircrafts')
            /\ ~is_stopped' => ~is_finished' /\ StartingFleet(aircrafts')]_vars

\* the pause/resume key, the only key pressed, has been pressed on a finished
\* run and the simulator runs again from the starting configuration
C4_Witness ==
    /\ last_key = "Slash" /\ nkeys = 1 /\ nticks > 0
    /\ ~is_finished /\ ~is_stopped /\ simulation_timer
    /\ StartingFleet(aircrafts)

\* C5: in every step the conflict trigger is called for aircraft k once if
\* safezone_occupied of k goes from false to true in that step, and not at
\* all otherwise.
C5_TriggerOncePerEntry ==
    [][\A k \in 0 .. 1 :
          Len(aircrafts) = 2 /\ Len(aircrafts') = 2
            => trigger_calls'[k] - trigger_calls[k]
                 = IF ~aircrafts[k + 1].safezone_occupied
                       /\ aircrafts'[k + 1].safezone_occupied
                   THEN 1 ELSE 0]_vars

\* both aircraft have been inside each other's safezone for three ticks in
\* a row and the trigger has been called once for each
C5_Witness ==
    /\ nkeys = 0 /\ nticks = 3
    /\ \A i \in 1 .. 2 :
          /\ aircrafts[i].safezone_occupied
          /\ Within(aircrafts[1].path[Len(aircrafts[1].path) - 2],
                    aircrafts[2].path[Len(aircrafts[2].path) - 2],
                    aircrafts[i].safezone_size * Scale)
    /\ trigger_calls[0] = 1 /\ trigger_calls[1] = 1

\* what reset_simulation followed by start_simulation makes of s
ResetStart(s) == start_simulation(reset_simulation(s))

\* C6: in every reachable state, reset_simulation followed by
\* start_simulation gives a running, unfinished simulator with the physics
\* timer active and the two aircraft of the starting configuration.
C6_ResetThenStart ==
    /\ ~ResetStart(Self).is_finished
    /\ ~ResetStart(Self).is_stopped
    /\ ResetStart(Self).simulation_timer
    /\ StartingFleet(ResetStart(Self).aircrafts)

\* a run ended by an aircraft leaving the area, aircraft far from the
\* starting configuration, from which reset then start gives a running
\* simulator
C6_Witness ==
    /\ is_finished /\ is_stopped /\ ~simulation_timer
    /\ \E i \in 1 .. 2 : ~Contained(aircrafts[i])
    /\ aircrafts[1].distance_covered > 0
    /\ ~ResetStart(Self).is_finished /\ ~ResetStart(Self).is_stopped
    /\ ResetStart(Self).aircrafts[1].distance_covered = 0

\* this step changes no aircraft and neither is_stopped nor is_finished
NoMutation ==
    /\ aircrafts' = aircrafts
    /\ is_stopped' = is_stopped
    /\ is_finished' = is_finished

\* C7: a call of the conflict trigger on a fleet of 0 or of 3 or more
\* aircraft returns after a warning for every id: it raises nothing and
\* changes no aircraft and neither is_stopped nor is_finished.
C7_WarningOnCount ==
    [][\A id \in ArgIds :
          CallStep(id) /\ (Len(aircrafts) = 0 \/ Len(aircrafts) >= 3)
            => /\ fault' = "none"
               /\ trigger_log' = IF Len(aircrafts) = 0 THEN "no_collisions"
                                                     ELSE "three_or_more"
               /\ NoMutation]_vars

\* the trigger has been called on three aircraft with an id none of them
\* has, and has returned after the warning
C7_Witness ==
    /\ Len(aircrafts) = 3 /\ nticks = 0
    /\ \A i \in 1 .. 3 : aircrafts[i].aircraft_id = 0
    /\ trigger_calls[MaxFleet] = 1
    /\ trigger_log = "three_or_more" /\ fault = "none"

\* the aircraft at index id exists and does not carry the id
Mismatch(fleet, id) ==
    /\ ValidIndex(Len(fleet), id)
    /\ At(fleet, id).aircraft_id # id

\* C8, as claimed: a call of the conflict trigger with an id that the
\* aircraft at that index does not carry raises the fatal error and changes
\* nothing, whatever the size of the fleet.
C8_MismatchAlwaysFatal ==
    [][\A id \in ArgIds :
          CallStep(id) /\ Mismatch(aircrafts, id)
            => fault' = "Exception" /\ NoMutation]_vars

\* C8, amended: on a fleet of one or two aircraft a call of the conflict
\* trigger with an id that the aircraft at that index does not carry raises
\* the fatal error before anything is measured and changes nothing, and a
\* physics tick whose proximity pass makes such a call ends with that error.
C8_MismatchFatalUpToTwo ==
    [][\A id \in ArgIds :
          /\ CallStep(id) /\ Len(aircrafts) \in 1 .. 2 /\ Mismatch(aircrafts, id)
               => /\ fault' = "Exception"
                  /\ trigger_log' = trigger_log
                  /\ NoMutation
          /\ (/\ TickStep /\ Len(aircrafts) \in 1 .. 2
              /\ trigger_calls'[id] > trigger_calls[id]
              /\ Mismatch(aircrafts, id))
               => /\ fault' = "Exception"
                  /\ trigger_log' = trigger_log
                  /\ is_stopped' = is_stopped
                  /\ is_finished' = is_finished]_vars

\* a physics tick on two aircraft carrying each other's id has ended with
\* the fatal error of the trigger
C8_Witness ==
    /\ Len(aircrafts) = 2 /\ nticks = 1
    /\ aircrafts[1].aircraft_id = 1 /\ aircrafts[2].aircraft_id = 0
    /\ trigger_calls[1] = 1
    /\ fault = "Exception"

\* C9: every aircraft's speed is at least 1.
C9_SpeedAtLeastOne ==
    \A i \in 1 .. Len(aircrafts) : aircrafts[i].speed >= 1

\* the speed-down key of aircraft 0 has been pressed twice on the approach
\* and nothing but its speed, now 1, has changed: the second press was
\* rejected
C9_Witness ==
    /\ nkeys = 2 /\ nticks = 0 /\ last_key = "F2"
    /\ Self = [Approach EXCEPT !.aircrafts[1].speed = 1]

SameDistances ==
    /\ Len(aircrafts') = Len(aircrafts)
    /\ \A i \in 1 .. Len(aircrafts) :
          aircrafts'[i].distance_covered = aircrafts[i].distance_covered

\* C11: a physics tick, the one that ends the run included, adds to every
\* aircraft's distance_covered the speed it has at that tick and appends one
\* position to its path; any other step leaves every distance_covered as it
\* is or replaces the aircraft by the starting configuration (distance 0).
C11_DistanceIsSumOfSpeeds ==
    [][/\ TickStep
           => /\ Len(aircrafts') = Len(aircrafts)
              /\ \A i \in 1 .. Len(aircrafts) :
                    /\ aircrafts'[i].distance_covered
                          = aircrafts[i].distance_covered + aircrafts[i].speed
                    /\ aircrafts'[i].distance_covered
                          >= aircrafts[i].distance_covered
                    /\ Len(aircrafts'[i].path) = Len(aircrafts[i].path) + 1
       /\ ~TickStep => SameDistances \/ StartingFleet(aircrafts')]_vars

\* the first tick of the rush, taken at the raised speeds, has ended the run
\* and has added those speeds to the distances covered
C11_Witness ==
    /\ is_finished /\ nticks = 1 /\ nkeys = 0
    /\ \A i \in 1 .. 2 :
          /\ aircrafts[i].speed = 2 + RushPresses
          /\ aircrafts[i].distance_covered
                = Rush.aircrafts[i].distance_covered + 2 + RushPresses
          /\ aircrafts[i].distance_covered > 2 * ApproachTicks

\* degrees(atan2(...)) % 360 from aircraft 1 to aircraft 0 of fleet
Bearing(fleet) ==
    Atan2Deg(fleet[1].position[2] - fleet[2].position[2],
             fleet[1].position[1] - fleet[2].position[1]) % 360

\* C12, as claimed: with cause_crash_second set, every physics tick leaves
\* the course of aircraft 1 at the bearing from its position to that of
\* aircraft 0, both as they are after the move of that tick.
C12_BearingEveryTick ==
    [][TickStep /\ cause_crash_second /\ Len(aircrafts') = 2
         => aircrafts'[2].course = Bearing(aircrafts')]_vars

\* C12, amended: with cause_crash_second set, a physics tick that does not
\* end the run leaves the course of aircraft 1 at the bearing from its
\* position to that of aircraft 0, both after the move of that tick, in
\* [0, 360); a tick that ends the run, and a tick with cause_crash_second
\* cleared, leave that course as it was.
C12_BearingEveryContinuingTick ==
    [][TickStep /\ Len(aircrafts') = 2
         => IF cause_crash_second /\ ~is_stopped'
            THEN /\ aircrafts'[2].course = Bearing(aircrafts')
                 /\ aircrafts'[2].course \in 0 .. 359
            ELSE aircrafts'[2].course = aircrafts[2].course]_vars

\* two ticks have gone on with cause_crash_second set and aircraft 1 is
\* left on the bearing to aircraft 0, a course no key sets
C12_Witness ==
    /\ cause_crash_second /\ ~is_stopped /\ ~is_finished /\ nticks >= 2
    /\ Len(aircrafts) = 2
    /\ aircrafts[2].course = Bearing(aircrafts)
    /\ aircrafts[2].course % 45 # 0
    /\ aircrafts[2].position # aircrafts[2].path[Len(aircrafts[2].path) - 1]

\* aircraft k (1-based) of the two of fleet has the other one within its own
\* safezone radius
Intruded(fleet, k) ==
    Within(fleet[k].position, fleet[3 - k].position,
           fleet[k].safezone_size * Scale)

\* some aircraft of fleet is outside the area
Outside(fleet) == \E i \in 1 .. Len(fleet) : ~Contained(fleet[i])

\* C13: a physics tick moves the aircraft first and runs the proximity pass,
\* the collision check and the boundary check on the positions after the
\* move: the safezone flags and is_finished follow those positions, a
\* safezone entry calls the conflict trigger even in a tick that ends the
\* run, a collision is reported alone even when an aircraft is outside the
\* area as well, and a tick that ends the run skips the injection.
C13_TickOrder ==
    [][TickStep /\ Len(aircrafts) = 2 /\ Len(aircrafts') = 2
         => /\ \A k \in 1 .. 2 :
                  /\ aircrafts'[k].safezone_occupied <=> Intruded(aircrafts', k)
                  /\ ~aircrafts[k].safezone_occupied /\ Intruded(aircrafts', k)
                        => trigger_calls'[k - 1] = trigger_calls[k - 1] + 1
            /\ is_finished' <=> Touching(aircrafts') \/ Outside(aircrafts')
            /\ terminal_log' =
                  IF Touching(aircrafts') THEN "collided"
                  ELSE IF Outside(aircrafts') THEN "left_boundaries"
                  ELSE terminal_log
            /\ is_finished' => aircrafts'[2].course = aircrafts[2].course]_vars

\* a tick has left the two aircraft touching with both of them beyond the
\* lower edge, and the collision is what was reported
C13_Witness ==
    /\ nticks > 0 /\ is_finished /\ is_stopped
    /\ Len(aircrafts) = 2 /\ Touching(aircrafts)
    /\ \A i \in 1 .. 2 : ~Contained(aircrafts[i])
    /\ terminal_log = "collided"

\* this step leaves the safezone flag of every aircraft as it is
SameFlags ==
    /\ Len(aircrafts') = Len(aircrafts)
    /\ \A i \in 1 .. Len(aircrafts) :
          aircrafts'[i].safezone_occupied = aircrafts[i].safezone_occupied

\* C14: once a physics tick has run, safezone_occupied of each of the two
\* aircraft is true exactly when the other aircraft is within that
\* aircraft's own safezone_size / 2; a step that is not a tick leaves the
\* flags as they are or replaces the aircraft by the starting configuration.
C14_FlagIsOwnRadiusTest ==
    [][/\ nticks' > 0 /\ Len(aircrafts') = 2
           => \A k \in 1 .. 2 :
                 aircrafts'[k].safezone_occupied <=> Intruded(aircrafts', k)
       /\ ~TickStep => SameFlags \/ StartingFleet(aircrafts')]_vars

\* after a tick and a key press, aircraft 0 with the wider safezone has its
\* flag set by an aircraft 1 whose own flag, with the narrower safezone, is
\* clear
C14_Witness ==
    /\ nticks > 0 /\ nkeys > 0 /\ Len(aircrafts) = 2
    /\ aircrafts[1].safezone_size > aircrafts[2].safezone_size
    /\ aircrafts[1].safezone_occupied /\ ~aircrafts[2].safezone_occupied
    /\ Intruded(aircrafts, 1) /\ ~Intruded(aircrafts, 2)

\* C15: in every reachable state is_stopped is true exactly when the
\* physics timer is inactive.
C15_StoppedIffTimerInactive == is_stopped <=> ~simulation_timer

\* a run that has ticked has been paused with the pause/resume key: the
\* flag is set, the timer is inactive and the run is not finished
C15_Witness ==
    /\ last_key = "Slash" /\ nticks > 0
    /\ is_stopped /\ ~simulation_timer /\ ~is_finished

\* what the pause/resume key makes of the simulator, the key handling
\* switched on first (key `) when it is off
Resumed ==
    keyPressEvent(IF debug THEN Self ELSE keyPressEvent(Self, "Backquote"),
                  "Slash")

\* C16: is_finished goes from false to true only in a physics tick that
\* leaves the two aircraft touching or some aircraft outside the area (no
\* key press and no render tick sets it), and in every paused state
\* (is_stopped, not is_finished) the pause/resume key gives a running
\* simulator with the same aircraft.
C16_FinishedOnlyByTerminalTick ==
    [][/\ ~is_finished /\ is_finished'
           => /\ TickStep
              /\ Len(aircrafts') = 2
              /\ Touching(aircrafts') \/ Outside(aircrafts')
       /\ is_stopped' /\ ~is_finished'
           => /\ ~Resumed'.is_stopped
              /\ Resumed'.simulation_timer
              /\ ~Resumed'.is_finished
              /\ Resumed'.aircrafts = aircrafts']_vars

\* a run that has ticked was paused and has been resumed by the
\* pause/resume key: it runs, unfinished, with the aircraft where they were
C16_Witness ==
    /\ last_key = "Slash" /\ nkeys = 2 /\ nticks > 0 /\ debug
    /\ ~is_stopped /\ ~is_finished /\ simulation_timer
    /\ ~StartingFleet(aircrafts)

\* C17, as claimed: a call of the conflict trigger on a fleet that does not
\* hold exactly two aircraft, with an id that no aircraft contradicts (the
\* single aircraft 0 called with id 0 included), measures nothing and
\* returns without raising anything.
C17_TwoVehiclesValidated ==
    [][\A id \in ArgIds :
          CallStep(id) /\ Len(aircrafts) # 2 /\ ~Mismatch(aircrafts, id)
            => /\ fault' = "none"
               /\ trigger_log' # "relative_distance"
               /\ NoMutation]_vars

\* C18: in every reachable state there are two aircraft, the one at index i
\* carrying the id i, no callback has raised anything, and the conflict
\* trigger has only been called with the ids 0 and 1 and has printed
\* nothing but its measurements.
C18_TwoAircraftIdsMatch ==
    /\ Len(aircrafts) = 2
    /\ \A i \in 0 .. 1 : aircrafts[i + 1].aircraft_id = i
    /\ fault = "none"
    /\ trigger_log \in {"none", "relative_distance"}
    /\ \A id \in ArgIds \ {0, 1} : trigger_calls[id] = 0

\* ticks have called the conflict trigger once for each aircraft, it has
\* passed its guards and measured, and a later tick has ended the run with
\* a collision that is flagged and printed, with nothing raised
C18_Witness ==
    /\ nticks > 1 /\ fault = "none"
    /\ trigger_calls[0] = 1 /\ trigger_calls[1] = 1
    /\ trigger_log = "relative_distance"
    /\ is_finished /\ is_stopped /\ terminal_log = "collided"

\* this step leaves position, yaw_angle, distance_covered, path and
\* safezone_occupied of every aircraft as they are
Frozen ==
    /\ Len(aircrafts') = Len(aircrafts)
    /\ \A i \in 1 .. Len(aircrafts) :
          /\ aircrafts'[i].position = aircrafts[i].position
          /\ aircrafts'[i].yaw_angle = aircrafts[i].yaw_angle
          /\ aircrafts'[i].distance_covered = aircrafts[i].distance_covered
          /\ aircrafts'[i].path = aircrafts[i].path
          /\ aircrafts'[i].safezone_occupied = aircrafts[i].safezone_occupied

\* a render tick in this state leaves the aircraft, is_stopped and
\* is_finished as they are
RenderKeeps ==
    /\ render_scene(Self).aircrafts = aircrafts
    /\ render_scene(Self).is_stopped = is_stopped
    /\ render_scene(Self).is_finished = is_finished

SteeringKeys(k) ==
    IF k = 1 THEN {"D", "S", "A", "W", "F2", "F3", "Y", "U"}
             ELSE {"L", "K", "J", "I", "F6", "F7", "O", "P"}

\* C20: a press of a steering key of aircraft k changes nothing but the
\* course or the speed of aircraft k, and not both: the other fields of
\* aircraft k, the other aircraft, is_stopped, is_finished and the timers
\* stay as they are, whether the simulator runs, is paused or is finished.
C20_SteeringTouchesCourseOrSpeed ==
    [][\A k \in 1 .. 2 : \A key \in SteeringKeys(k) :
          KeyStep(key) /\ Len(aircrafts) = 2
            => /\ Len(aircrafts') = 2
               /\ aircrafts'[3 - k] = aircrafts[3 - k]
               /\ aircrafts'[k] =
                     [aircrafts[k] EXCEPT !.course = aircrafts'[k].course,
                                          !.speed = aircrafts'[k].speed]
               /\ \/ aircrafts'[k].course = aircrafts[k].course
                  \/ aircrafts'[k].speed = aircrafts[k].speed
               /\ is_stopped' = is_stopped
               /\ is_finished' = is_finished
               /\ simulation_timer' = simulation_timer
               /\ gui_timer' = gui_timer]_vars

\* the first tick of the rush has ended the run and the right-turn key of
\* aircraft 1 has then moved its course from 135 to 225, its heading still
\* 135 and aircraft 0 as it was
C20_Witness ==
    /\ is_finished /\ is_stopped /\ nticks = 1 /\ nkeys = 1 /\ last_key = "P"
    /\ aircrafts[2].course = 225 /\ aircrafts[2].yaw_angle = 135
    /\ aircrafts[2].speed = 2 + RushPresses
    /\ aircrafts[1].course = 45

\* this step is a physics tick that ends the run with a collision
CollisionStep ==
    /\ TickStep /\ ~is_finished /\ is_finished'
    /\ terminal_log' = "collided"
    /\ Len(aircrafts) = 2 /\ Len(aircrafts') = 2

\* aircraft k (1-based) ends this step with its safezone flag set, the
\* conflict trigger called for it in this step if the flag was clear before
Detected(k) ==
    /\ aircrafts'[k].safezone_occupied
    /\ ~aircrafts[k].safezone_occupied
          => trigger_calls'[k - 1] = trigger_calls[k - 1] + 1

\* C21, as claimed: when both aircraft have safezone_size >= size > 0, a
\* tick that ends the run with a collision leaves both safezone flags set,
\* the conflict trigger called for each aircraft whose flag was clear.
C21_DetectionPrecedesCollision ==
    [][CollisionStep
         /\ (\A k \in 1 .. 2 : /\ aircrafts[k].size > 0
                                /\ aircrafts[k].safezone_size >= aircrafts[k].size)
         => \A k \in 1 .. 2 : Detected(k)]_vars

\* C21, amended: when each aircraft's safezone_size is at least the sum of
\* the two sizes (and the sizes are positive), a tick that ends the run with
\* a collision leaves both safezone flags set, the conflict trigger called
\* for each aircraft whose flag was clear.
C21_DetectionPrecedesCollisionWideZones ==
    [][CollisionStep
         /\ (\A k \in 1 .. 2 :
                /\ aircrafts[k].size > 0
                /\ aircrafts[k].safezone_size
                      >= aircrafts[1].size + aircrafts[2].size)
         => \A k \in 1 .. 2 : Detected(k)]_vars

\* the first tick on a pair with hitboxes 20 and 40 and safezones 60 has
\* ended the run with a collision, both flags set and the trigger called
\* once for each aircraft
C21_Witness ==
    /\ nticks = 1 /\ is_finished /\ terminal_log = "collided"
    /\ Len(aircrafts) = 2
    /\ aircrafts[1].size = 20 /\ aircrafts[2].size = 40
    /\ \A k \in 1 .. 2 : /\ aircrafts[k].safezone_size = 60
                          /\ aircrafts[k].safezone_occupied
                          /\ trigger_calls[k - 1] = 1
    /\ fault = "none"

====
